---------------------------- MODULE Spec2Model ----------------------------
(***************************************************************************)
(* A model of the game core of bomba-man (src/src/utils/game.ts) and of    *)
(* the hooks and components that call it.                                  *)
(*                                                                         *)
(* The functions of utils/game.ts are pure: each is an operator here,      *)
(* computed the way the code computes it, and is exercised by a            *)
(* specification whose initial states draw its arguments (call) and whose  *)
(* action stores what it returns (ret).  The store's GameState is `state`. *)
(***************************************************************************)
EXTENDS Integers, Sequences, FiniteSets, TLC

VARIABLES
    state,  \* the GameState of the store, or NoState before it is built
    call,   \* the invocation in progress: [fn |-> name, ...arguments]
    ret,    \* what the invocation returned, NoValue until it returns
    pc,     \* "ready" before the invocation runs, "done" once it returned,
            \* "playing" while the store holds a game
    now,    \* the reading of the clock, new Date().getTime()
    config  \* the module `config` the components import, or NoConfig

vars == <<state, call, ret, pc, now, config>>

NoState == "NoState"
NoValue == "NoValue"
NoConfig == "NoConfig"

-----------------------------------------------------------------------------
(* Bounds of the model *)

\* side of the largest map whose tiles are drawn freely
MaxMapSize == 3
\* most non-Empty squares of a freely drawn map
MaxBlocks == 1
\* largest explosionSize drawn (sizes run from -1, so s <= 0 is covered)
MaxExplosionSize == 3
\* longest list of forbidden coordinates handed to the map generator
MaxForbidden == 1
\* most power-ups a player picks up
MaxPickUps == 2
\* largest deathCount reached
MaxDeathCount == 2
\* most bombs held by the store
MaxBombs == 1
\* last reading of the clock
MaxClock == 1
\* largest distance of a pixel coordinate from 0
MaxPixel == 6
\* largest movement size handed to the converters
MaxMovementSize == 3
\* most keys held down at once
MaxKeys == 1

-----------------------------------------------------------------------------
(* enums: Tile, Explosive; the `undefined` of an index outside an object *)

Empty == "Empty"
Breaking == "Breaking"
NonBreaking == "NonBreaking"
Bomb == "Bomb"
FireHorizontal == "FireHorizontal"
FireVertical == "FireVertical"
Undefined == "undefined"

Tile == {Empty, Breaking, NonBreaking}
Explosive == {Bomb, FireHorizontal, FireVertical}
FIRE_VALUES == {FireHorizontal, FireVertical}
Square == Tile \cup Explosive

\* generateDefaultGameConfig(): sizes.map, sizes.movement,
\* tiles.blockTileChance
DefaultMapSize == 15
DefaultMovementSize == 32
DefaultBlockTileChance == 1

-----------------------------------------------------------------------------
(* Coordinate converter *)

\* JavaScript's `/` on numbers: exact when b divides a, a fraction otherwise
\* (kept as the pair that names it, which is no integer and indexes nothing).
JsDivide(a, b) ==
    IF a % b = 0 THEN a \div b ELSE [num |-> a, den |-> b]

topLeftCoordinatesToSquareCoordinates(coordinates, movementSize) ==
    [ ySquare |-> JsDivide(coordinates.top, movementSize),
      xSquare |-> JsDivide(coordinates.left, movementSize) ]

\* top taken from the column and left from the row
squareCoordinatesToTopLeftCoordinates_Swapped(coordinates, movementSize) ==
    [ top |-> coordinates.xSquare * movementSize,
      left |-> coordinates.ySquare * movementSize ]

squareCoordinatesToTopLeftCoordinates(coordinates, movementSize) ==
    [ top |-> coordinates.ySquare * movementSize,
      left |-> coordinates.xSquare * movementSize ]

\* (coordinates as SquareCoordinates).xSquare !== undefined
HasXSquare(coordinates) == "xSquare" \in DOMAIN coordinates

getTopLeftCoordinatesFromSquareOrSquareCoordinates(coordinates, movementSize) ==
    IF HasXSquare(coordinates)
    THEN squareCoordinatesToTopLeftCoordinates(coordinates, movementSize)
    ELSE [top |-> coordinates.top, left |-> coordinates.left]

getSquareCoordinatesFromSquareOrTopLeftCoordinates(coordinates, movementSize) ==
    IF HasXSquare(coordinates)
    THEN [xSquare |-> coordinates.xSquare, ySquare |-> coordinates.ySquare]
    ELSE topLeftCoordinatesToSquareCoordinates(coordinates, movementSize)

-----------------------------------------------------------------------------
(* Game maps: gameMap[ySquare][xSquare], rows and columns 0 .. mapSize-1 *)

Indexes(mapSize) == 0 .. (mapSize - 1)

\* gameMap[ySquare]?.[xSquare]: undefined outside the map
SquareAt(gameMap, ySquare, xSquare) ==
    IF ySquare \in DOMAIN gameMap /\ xSquare \in DOMAIN gameMap[ySquare]
    THEN gameMap[ySquare][xSquare]
    ELSE Undefined

SquareCoordinate(xSquare, ySquare) == [xSquare |-> xSquare, ySquare |-> ySquare]

-----------------------------------------------------------------------------
(* Explosion engine *)

HORIZONTAL == "horizontal"
VERTICAL == "vertical"
CORE == "core"

\* value to add to currentX and currentY: Up, Right, Down, Left
xyDiff == << <<0, -1>>, <<1, 0>>, <<0, 1>>, <<-1, 0>> >>

\* the bucket of ray i (0-based, as in the code)
directions == <<VERTICAL, HORIZONTAL, VERTICAL, HORIZONTAL>>

\* the check with the last comparison off by one
isSquareOutsideBoundaries_OffByOne(squareCoordinate, mapSize) ==
    squareCoordinate < 0 \/ squareCoordinate > mapSize

isSquareOutsideBoundaries(squareCoordinate, mapSize) ==
    squareCoordinate < 0 \/ squareCoordinate >= mapSize

\* the filter taking every Explosive for fire
IsFire_AnyExplosive(currentSquare) ==
    currentSquare \in Explosive

\* currentSquare is Explosive.FireHorizontal or Explosive.FireVertical
IsFire(currentSquare) ==
    ~(currentSquare # FireHorizontal /\ currentSquare # FireVertical)

\* the switch with the Breaking case falling through to the default
StopsRay_OnlyNonBreaking(currentSquare) ==
    currentSquare = NonBreaking

\* the cases of the switch that set shouldContinue = false
StopsRay(currentSquare) ==
    currentSquare = Breaking \/ currentSquare = NonBreaking

\* the cases of the switch that call pushCurrentCoordinates
SwitchPushes(currentSquare) ==
    currentSquare # NonBreaking

\* pushCurrentCoordinates: acc is the bucket being filled by this ray, with
\* the cells of gameMap the walk has indexed so far
pushCurrentCoordinates(acc, xSquare, ySquare) ==
    [acc EXCEPT !.pushed = Append(@, SquareCoordinate(xSquare, ySquare))]

\* the loop running one round too many
RayGoesOn_Inclusive(j, explosionSize) == j <= explosionSize

\* the test of the inner loop: j < explosionSize
RayGoesOn(j, explosionSize) == j < explosionSize

\* The inner loop of ray i from its j-th round on.  cur is (currentX,
\* currentY) before the round.
RECURSIVE walkRay(_, _, _, _, _, _, _, _, _)
walkRay(gameMap, mapSize, checkOnlyFire, explosionSize, i, j, cur, shouldContinue, acc) ==
    IF ~RayGoesOn(j, explosionSize) THEN acc
    ELSE IF ~shouldContinue
    THEN walkRay(gameMap, mapSize, checkOnlyFire, explosionSize, i, j + 1,
                 cur, shouldContinue, acc)
    ELSE
      LET currentX == cur.x + xyDiff[i + 1][1]
          currentY == cur.y + xyDiff[i + 1][2]
          next == [x |-> currentX, y |-> currentY]
      IN
      IF \/ isSquareOutsideBoundaries(currentX, mapSize)
         \/ isSquareOutsideBoundaries(currentY, mapSize)
      THEN walkRay(gameMap, mapSize, checkOnlyFire, explosionSize, i, j + 1,
                   next, shouldContinue, acc)
      ELSE
        LET currentSquare == SquareAt(gameMap, currentY, currentX)
            read == [acc EXCEPT !.reads = Append(@, <<currentY, currentX>>)]
        IN
        IF checkOnlyFire /\ ~IsFire(currentSquare)
        THEN walkRay(gameMap, mapSize, checkOnlyFire, explosionSize, i,
                     j + 1, next, shouldContinue, read)
        ELSE
          LET fired == IF checkOnlyFire
                       THEN pushCurrentCoordinates(read, currentX, currentY)
                       ELSE read
              switched == IF SwitchPushes(currentSquare)
                          THEN pushCurrentCoordinates(fired, currentX, currentY)
                          ELSE fired
          IN walkRay(gameMap, mapSize, checkOnlyFire, explosionSize, i,
                     j + 1, next, ~StopsRay(currentSquare), switched)

\* ray i of the outer loop, started at the bomb
Ray(gameMap, mapSize, checkOnlyFire, explosionSize, i, bombX, bombY) ==
    walkRay(gameMap, mapSize, checkOnlyFire, explosionSize, i, 0,
            [x |-> bombX, y |-> bombY], TRUE,
            [pushed |-> <<>>, reads |-> <<>>])

RECURSIVE BucketOf(_, _, _)
\* what rays i .. 3 pushed to explosionCoordinates[explosionDirection], in
\* the order of the outer loop (rays[k] is ray k-1)
BucketOf(explosionDirection, rays, i) ==
    IF i > 3 THEN << >>
    ELSE (IF directions[i + 1] = explosionDirection
          THEN rays[i + 1].pushed ELSE << >>)
           \o BucketOf(explosionDirection, rays, i + 1)

\* Returns the explosionCoordinates of the code, and with them the cells of
\* gameMap the walk indexed (reads), in the order it indexed them.
getExplosionSquareCoordinatesFromBomb(gameMap, coordinates, explosionSize, sizes, checkOnlyFire) ==
    LET bomb == getSquareCoordinatesFromSquareOrTopLeftCoordinates(
                    coordinates, sizes.movement)
        rays == [k \in 1 .. 4 |->
                    Ray(gameMap, sizes.map, checkOnlyFire, explosionSize,
                        k - 1, bomb.xSquare, bomb.ySquare)]
    IN [ horizontal |-> BucketOf(HORIZONTAL, rays, 0),
         vertical |-> BucketOf(VERTICAL, rays, 0),
         core |-> <<SquareCoordinate(bomb.xSquare, bomb.ySquare)>>,
         reads |-> rays[1].reads \o rays[2].reads \o rays[3].reads
                     \o rays[4].reads ]

getTilesToBreak(gameMap, ySquare, xSquare) ==
    IF SquareAt(gameMap, ySquare, xSquare) = Breaking
    THEN << [ySquare |-> ySquare, xSquare |-> xSquare] >>
    ELSE << >>

RECURSIVE TilesToBreakOf(_, _)
\* the tilesToBreak pushed while the squares of one bucket are copied
TilesToBreakOf(gameMap, squares) ==
    IF squares = << >> THEN << >>
    ELSE getTilesToBreak(gameMap, Head(squares).ySquare, Head(squares).xSquare)
           \o TilesToBreakOf(gameMap, Tail(squares))

\* the cells getTilesToBreak indexes for one bucket
ReadsOf(squares) ==
    [k \in 1 .. Len(squares) |-> <<squares[k].ySquare, squares[k].xSquare>>]

\* Object.keys(explosionSquares): horizontal, vertical, core
getExplosionResults(gameMap, bombCoordinates, explosionSize, sizes, checkOnlyFire) ==
    LET explosionSquares == getExplosionSquareCoordinatesFromBomb(
            gameMap, bombCoordinates, explosionSize, sizes, checkOnlyFire)
        all == explosionSquares.horizontal \o explosionSquares.vertical
                 \o explosionSquares.core
    IN [ coordinatesToSetOnFire |->
             [ horizontal |-> explosionSquares.horizontal,
               vertical |-> explosionSquares.vertical,
               core |-> explosionSquares.core ],
         tilesToBreak |-> TilesToBreakOf(gameMap, all),
         reads |-> explosionSquares.reads \o ReadsOf(all) ]

-----------------------------------------------------------------------------
(* Inputs of the explosion engine *)

Cells(mapSize) == Indexes(mapSize) \X Indexes(mapSize)

RECURSIVE SubsetsUpTo(_, _)
\* the subsets of S of at most k elements
SubsetsUpTo(S, k) ==
    IF k = 0 THEN {{}}
    ELSE LET smaller == SubsetsUpTo(S, k - 1)
         IN smaller \cup {s \cup {c} : s \in smaller, c \in S}

\* the mapSize x mapSize map that holds blocks[c] at the cells c of its
\* domain and Empty elsewhere (c = <<ySquare, xSquare>>)
MapOf(mapSize, blocks) ==
    [y \in Indexes(mapSize) |->
        [x \in Indexes(mapSize) |->
            IF <<y, x>> \in DOMAIN blocks THEN blocks[<<y, x>>] ELSE Empty]]

EmptyMap(mapSize) == MapOf(mapSize, << >>)

\* every map of that size with at most MaxBlocks squares that are not Empty
MapsOf(mapSize, kinds) ==
    { MapOf(mapSize, blocks) :
        blocks \in UNION { [S -> kinds] :
                             S \in SubsetsUpTo(Cells(mapSize), MaxBlocks) } }

Sizes(mapSize) == [map |-> mapSize, movement |-> DefaultMovementSize]

ExplosionSizes == -1 .. MaxExplosionSize

\* a bomb lies where its owner stood: on a square of the map
BombCoordinates(mapSize) ==
    { squareCoordinatesToTopLeftCoordinates(SquareCoordinate(x, y),
                                            DefaultMovementSize) :
        x \in Indexes(mapSize), y \in Indexes(mapSize) }

ExplosionCalls(mapSize, maps) ==
    [ fn : {"getExplosionResults"},
      gameMap : maps,
      bombCoordinates : BombCoordinates(mapSize),
      explosionSize : ExplosionSizes,
      sizes : {Sizes(mapSize)},
      checkOnlyFire : BOOLEAN ]

InitExplosion ==
    /\ state = NoState
    /\ ret = NoValue
    /\ pc = "ready"
    /\ now = 0
    /\ config = NoConfig
    /\ \/ \E mapSize \in 1 .. MaxMapSize :
            call \in ExplosionCalls(mapSize,
                                    MapsOf(mapSize, Square \ {Empty}))
       \/ call \in ExplosionCalls(DefaultMapSize, {EmptyMap(DefaultMapSize)})

Explode ==
    /\ pc = "ready"
    /\ pc' = "done"
    /\ ret' = getExplosionResults(call.gameMap, call.bombCoordinates,
                                  call.explosionSize, call.sizes,
                                  call.checkOnlyFire)
    /\ UNCHANGED <<state, call, now, config>>

NextExplosion == Explode

SpecExplosion == InitExplosion /\ [][NextExplosion]_vars


-----------------------------------------------------------------------------
(* Map generator *)

\* an optional argument: << >> when omitted, <<v>> when v is passed
Omitted == << >>
Given(v) == <<v>>

PlayerIds == <<"P1", "P2", "P3", "P4">>

getDefaultPlayerStartSquareCoordinates(mapSize) ==
    LET minSize == 0
        maxSize == mapSize - 1
    IN [ P1 |-> [ySquare |-> minSize, xSquare |-> minSize],
         P2 |-> [ySquare |-> minSize, xSquare |-> maxSize],
         P3 |-> [ySquare |-> maxSize, xSquare |-> maxSize],
         P4 |-> [ySquare |-> maxSize, xSquare |-> minSize] ]

\* getForbiddenStartCoordinates.xyDiff: TopLeft, TopRight, BottomRight,
\* BottomLeft
startXyDiff == << <<1, 1>>, <<-1, 1>>, <<-1, -1>>, <<1, -1>> >>

\* the callback with the vertical neighbour pushed as the horizontal one
ForbiddenOfPlayer_NoVertical(squareCoordinates, ind) ==
    LET xSquare == squareCoordinates.xSquare
        ySquare == squareCoordinates.ySquare
        currentDiff == startXyDiff[ind + 1]
    IN << squareCoordinates,
          [xSquare |-> xSquare + currentDiff[1], ySquare |-> ySquare],
          [xSquare |-> xSquare + currentDiff[1], ySquare |-> ySquare] >>

\* the three squares the reduce callback pushes for the ind-th player (0-based):
\* the player's, the horizontal neighbour, the vertical neighbour
ForbiddenOfPlayer(squareCoordinates, ind) ==
    LET xSquare == squareCoordinates.xSquare
        ySquare == squareCoordinates.ySquare
        currentDiff == startXyDiff[ind + 1]
    IN << squareCoordinates,
          [xSquare |-> xSquare + currentDiff[1], ySquare |-> ySquare],
          [xSquare |-> xSquare, ySquare |-> ySquare + currentDiff[2]] >>

getForbiddenStartCoordinates(mapSize) ==
    LET defaultSquareCoordinates ==
            getDefaultPlayerStartSquareCoordinates(mapSize)
    IN ForbiddenOfPlayer(defaultSquareCoordinates.P1, 0)
         \o ForbiddenOfPlayer(defaultSquareCoordinates.P2, 1)
         \o ForbiddenOfPlayer(defaultSquareCoordinates.P3, 2)
         \o ForbiddenOfPlayer(defaultSquareCoordinates.P4, 3)

\* the values getRandomInt(max) can return
getRandomInt(max) == 0 .. (max - 1)

\* [...Object.keys(Tile), ...Array(11 - blockTileChance).fill('Empty')]
TilePool(blockTileChance) ==
    <<Empty, Breaking, NonBreaking>>
        \o [k \in 1 .. (11 - blockTileChance) |-> Empty]

\* Tile[tiles[getRandomInt(tiles.length)]]: the tiles a draw can give
DrawnTiles(tiles) == {tiles[k + 1] : k \in getRandomInt(Len(tiles))}

\* the maps the two nested reduces can build (of those, the ones with at
\* most MaxBlocks draws that are not Empty)
RandomMaps(mapSize, tiles) == MapsOf(mapSize, DrawnTiles(tiles) \ {Empty})

\* the test taking only the indestructible tile for a block
MustClear_OnlyNonBreaking(square) == square = NonBreaking

\* the test of the forEach: randomMap[ySquare][xSquare] !== Tile.Empty
MustClear(square) == square # Empty

\* One round of the forEach over the forbidden coordinates.  The outcome
\* is [threw, gameMap]: indexing a row the map does not have throws a
\* TypeError; assigning a column the row does not have adds it.
ClearSquare(outcome, coordinates) ==
    LET ySquare == coordinates.ySquare
        xSquare == coordinates.xSquare
        randomMap == outcome.gameMap
    IN IF outcome.threw THEN outcome
       ELSE IF ySquare \notin DOMAIN randomMap
       THEN [outcome EXCEPT !.threw = TRUE]
       ELSE IF MustClear(SquareAt(randomMap, ySquare, xSquare))
       THEN [outcome EXCEPT !.gameMap =
                (ySquare :> ((xSquare :> Empty) @@ randomMap[ySquare]))
                    @@ randomMap]
       ELSE outcome

RECURSIVE ClearForbidden(_, _)
ClearForbidden(outcome, forbidden) ==
    IF forbidden = << >> THEN outcome
    ELSE ClearForbidden(ClearSquare(outcome, Head(forbidden)),
                        Tail(forbidden))

\* forbiddenCoordinates || getForbiddenStartCoordinates(mapSize)
ForbiddenOrDefault(mapSize, forbiddenCoordinates) ==
    IF forbiddenCoordinates = Omitted
    THEN getForbiddenStartCoordinates(mapSize)
    ELSE forbiddenCoordinates[1]

\* The outcomes of generateRandomGameMap, one per value of the random draws:
\* [threw, gameMap, randomMap], randomMap being the map as drawn.
generateRandomGameMap(mapSize, blockTileChance, forbiddenCoordinates) ==
    LET forbidden == ForbiddenOrDefault(mapSize, forbiddenCoordinates)
        tiles == TilePool(blockTileChance)
    IN { LET outcome == ClearForbidden(
                            [threw |-> FALSE, gameMap |-> randomMap], forbidden)
         IN [ threw |-> outcome.threw,
              gameMap |-> outcome.gameMap,
              randomMap |-> randomMap ] :
           randomMap \in RandomMaps(mapSize, tiles) }

-----------------------------------------------------------------------------
(* Movement validator *)

\* the test with the bomb left out
IsObstacle_NoBomb(nextSquare) ==
    nextSquare = Breaking \/ nextSquare = NonBreaking

IsObstacle(nextSquare) ==
    \/ nextSquare = Breaking
    \/ nextSquare = NonBreaking
    \/ nextSquare = Bomb

canMove(coordinates, gameMap, sizes) ==
    LET minTopLeft == 0
        maxTopLeft == sizes.map - 1
        square == getSquareCoordinatesFromSquareOrTopLeftCoordinates(
                      coordinates, sizes.movement)
        xSquare == square.xSquare
        ySquare == square.ySquare
        nextSquare == SquareAt(gameMap, ySquare, xSquare)
        isObstacle == IsObstacle(nextSquare)
        isHorizontalEnd == xSquare < minTopLeft \/ xSquare > maxTopLeft
        isVerticalEnd == ySquare < minTopLeft \/ ySquare > maxTopLeft
    IN ~isObstacle /\ ~isHorizontalEnd /\ ~isVerticalEnd

\* the squares a move can aim at: those of the map and the ring around it
TargetIndexes(mapSize) == -1 .. mapSize

\* a target in either representation of Coordinates
Targets(mapSize) ==
    LET squares == { SquareCoordinate(x, y) : x \in TargetIndexes(mapSize),
                                              y \in TargetIndexes(mapSize) }
    IN squares \cup
       { squareCoordinatesToTopLeftCoordinates(c, DefaultMovementSize) :
           c \in squares }

InitCanMove ==
    /\ state = NoState
    /\ ret = NoValue
    /\ pc = "ready"
    /\ now = 0
    /\ config = NoConfig
    /\ \E mapSize \in 1 .. MaxMapSize :
         call \in [ fn : {"canMove"},
                    coordinates : Targets(mapSize),
                    gameMap : MapsOf(mapSize, Square \ {Empty}),
                    sizes : {Sizes(mapSize)} ]

CanMove ==
    /\ pc = "ready"
    /\ pc' = "done"
    /\ ret' = canMove(call.coordinates, call.gameMap, call.sizes)
    /\ UNCHANGED <<state, call, now, config>>

NextCanMove == CanMove

SpecCanMove == InitCanMove /\ [][NextCanMove]_vars

-----------------------------------------------------------------------------
(* Inputs of the map generator *)

BlockTileChances == 1 .. 10

RECURSIVE SeqsUpTo(_, _)
\* the sequences over S of length at most n
SeqsUpTo(S, n) ==
    IF n = 0 THEN {<< >>}
    ELSE LET shorter == SeqsUpTo(S, n - 1)
         IN shorter \cup {Append(q, c) : q \in shorter, c \in S}

SquaresOfMap(mapSize) ==
    {SquareCoordinate(x, y) : x \in Indexes(mapSize), y \in Indexes(mapSize)}

GeneratorCalls(mapSizes, chances, forbidden) ==
    [ fn : {"generateRandomGameMap"},
      mapSize : mapSizes,
      blockTileChance : chances,
      forbiddenCoordinates : forbidden ]

\* the default list is asked for maps up to the default size
ForbiddenCalls ==
    [ fn : {"getForbiddenStartCoordinates"}, mapSize : 1 .. DefaultMapSize ]

InitMapGenerator ==
    /\ state = NoState
    /\ ret = NoValue
    /\ pc = "ready"
    /\ now = 0
    /\ config = NoConfig
    /\ \/ call \in GeneratorCalls(1 .. MaxMapSize, BlockTileChances, {Omitted})
       \/ \E mapSize \in 1 .. MaxMapSize :
            call \in GeneratorCalls({mapSize}, BlockTileChances,
                        { Given(q) : q \in SeqsUpTo(SquaresOfMap(mapSize),
                                                     MaxForbidden) })
       \/ call \in ForbiddenCalls

ListForbidden ==
    /\ pc = "ready"
    /\ call.fn = "getForbiddenStartCoordinates"
    /\ pc' = "done"
    /\ ret' = getForbiddenStartCoordinates(call.mapSize)
    /\ UNCHANGED <<state, call, now, config>>

GenerateMap ==
    /\ pc = "ready"
    /\ call.fn = "generateRandomGameMap"
    /\ pc' = "done"
    /\ ret' \in generateRandomGameMap(call.mapSize, call.blockTileChance,
                                       call.forbiddenCoordinates)
    /\ UNCHANGED <<state, call, now, config>>

NextMapGenerator == GenerateMap \/ ListForbidden

SpecMapGenerator == InitMapGenerator /\ [][NextMapGenerator]_vars

-----------------------------------------------------------------------------
(* Power-up resolver and player lifecycle *)

Life == "Life"
BombCount == "BombCount"
BombSize == "BombSize"
MovementSpeed == "MovementSpeed"

\* Object.values(PowerUp)
PowerUp == {Life, BombCount, BombSize, MovementSpeed}

generateDefaultGameConfig ==
    [ powerUps |->
        [ chance |-> 5,
          defaults |-> [Life |-> 1, BombCount |-> 1, BombSize |-> 1,
                        MovementSpeed |-> 200],
          increaseValues |-> [Life |-> 1, BombCount |-> 1, BombSize |-> 1,
                              MovementSpeed |-> -15],
          maxDropCount |-> [Life |-> 4, BombCount |-> 6, BombSize |-> 6,
                            MovementSpeed |-> 5] ],
      tiles |-> [blockTileChance |-> DefaultBlockTileChance],
      sizes |-> [map |-> DefaultMapSize, character |-> 32, tile |-> 32,
                 movement |-> DefaultMovementSize, bomb |-> 16],
      duration |-> [bomb |-> [firing |-> 2, exploding |-> 1]],
      keyboardConfig |->
        [ P1 |-> [MoveUp |-> "KeyW", MoveRight |-> "KeyD", MoveDown |-> "KeyS",
                  MoveLeft |-> "KeyA", DropBomb |-> "Space"],
          P2 |-> [MoveUp |-> "ArrowUp", MoveRight |-> "ArrowRight",
                  MoveDown |-> "ArrowDown", MoveLeft |-> "ArrowLeft",
                  DropBomb |-> "Semicolon"] ] ]

getDefaultPowerUps == [powerUp \in PowerUp |-> 0]

getPoweredUpValue(playerState, type, powerUpConfig) ==
    powerUpConfig.defaults[type]
        + playerState.powerUps[type] * powerUpConfig.increaseValues[type]

\* the comparison made strict
isPlayerDead_Strict(playerState, powerUpConfig) ==
    playerState.deathCount > getPoweredUpValue(playerState, Life, powerUpConfig)

isPlayerDead(playerState, powerUpConfig) ==
    playerState.deathCount >= getPoweredUpValue(playerState, Life, powerUpConfig)

\* new Date().getTime().toString(): the decimal string of the reading, kept
\* as the one-element tuple of the number it writes
TimeString(time) == <<time>>

\* generateBomb at the reading `time` of the clock
generateBomb(playerConfig, powerUpConfig, time) ==
    [ id |-> TimeString(time),
      explosionSize |-> getPoweredUpValue(playerConfig.state, BombSize,
                                          powerUpConfig),
      top |-> playerConfig.coordinates.top,
      left |-> playerConfig.coordinates.left,
      playerId |-> playerConfig.id ]

\* a player that is there but may not act
canPlayerTakeAction_DeadOrAlive(players, playerId, powerUpConfig) ==
    playerId \in DOMAIN players

\* canPlayerTakeAction of the hooks: the player exists and is not dead
canPlayerTakeAction(players, playerId, powerUpConfig) ==
    IF playerId \notin DOMAIN players THEN FALSE
    ELSE IF isPlayerDead(players[playerId].state, powerUpConfig) THEN FALSE
    ELSE TRUE

-----------------------------------------------------------------------------
(* Game state assembler *)

\* a keyboardConfig that is undefined: no key of it is there
NoKeyboardConfig == << >>

\* !keyboardConfig
IsNoKeyboardConfig(keyboardConfig) == DOMAIN keyboardConfig = {}

\* keyboardConfig: { [playerId]: defaultKeyboardConfig }
KeyboardConfigOf(cfg, playerId) ==
    IF playerId \in DOMAIN cfg.keyboardConfig
    THEN cfg.keyboardConfig[playerId]
    ELSE NoKeyboardConfig

generatePlayer(playerId, cfg, coordinates) ==
    LET mapSize == cfg.sizes.map
        movementSize == cfg.sizes.movement
        topLeftCoordinates ==
            getTopLeftCoordinatesFromSquareOrSquareCoordinates(
                IF coordinates = Omitted
                THEN getDefaultPlayerStartSquareCoordinates(mapSize)[playerId]
                ELSE coordinates[1],
                movementSize)
    IN [ id |-> playerId,
         coordinates |-> topLeftCoordinates,
         state |-> [deathCount |-> 0, powerUps |-> getDefaultPowerUps],
         keyboardConfig |-> KeyboardConfigOf(cfg, playerId) ]

\* the empty object {}
EmptyObject == << >>

\* the config stamped into the state
StampedConfig(passedConfig) == generateDefaultGameConfig

\* The outcomes of generateDefaultGameState, one per generated map:
\* [threw, state].  cfg is the optional argument.
generateDefaultGameState(cfg) ==
    LET passedConfig == IF cfg = Omitted THEN generateDefaultGameConfig
                        ELSE cfg[1]
        mapSize == passedConfig.sizes.map
        blockDensity == passedConfig.tiles.blockTileChance
    IN { [ threw |-> generated.threw,
           state |->
             [ players |-> [P1 |-> generatePlayer("P1", passedConfig, Omitted)],
               gameMap |-> generated.gameMap,
               bombs |-> EmptyObject,
               powerUps |-> EmptyObject,
               config |-> StampedConfig(passedConfig),
               is3D |-> FALSE,
               isSideView |-> FALSE,
               animationCounter |-> 0 ] ] :
           generated \in generateRandomGameMap(mapSize, blockDensity, Omitted) }

\* a config with the given map size and block chance, the rest as the default
ConfigOf(mapSize, blockTileChance) ==
    [generateDefaultGameConfig EXCEPT !.sizes.map = mapSize,
                                      !.tiles.blockTileChance = blockTileChance]

InitAssembler ==
    /\ state = NoState
    /\ ret = NoValue
    /\ pc = "ready"
    /\ now = 0
    /\ config = NoConfig
    /\ call \in [ fn : {"generateDefaultGameState"},
                   config : {Omitted, Given(generateDefaultGameConfig)} \cup
                            { Given(ConfigOf(mapSize, blockTileChance)) :
                                mapSize \in 2 .. MaxMapSize,
                                blockTileChance \in BlockTileChances } ]

\* the store takes the state that generateDefaultGameState returned
Assemble ==
    /\ pc = "ready"
    /\ \E outcome \in generateDefaultGameState(call.config) :
          /\ ~outcome.threw
          /\ ret' = outcome.state
          /\ state' = outcome.state
    /\ pc' = "done"
    /\ UNCHANGED <<call, now, config>>

NextAssembler == Assemble

SpecAssembler == InitAssembler /\ [][NextAssembler]_vars

-----------------------------------------------------------------------------
(* A running game: key events, interval callbacks, timeouts and renders *)

\* no call is being served while the game runs
NoEvent == << >>

\* the keys a players object may have
Player == {"P1", "P2", "P3", "P4"}

\* the module GameContent imports as `config': its explosion size is a value
\* of its own, not one of the game state
ImportedConfigs == { [size |-> [explosion |-> explosion]] : explosion \in 1 .. MaxExplosionSize }

\* <Bomb key={id} id={id} {...bombProps} explosionSize={config.size.explosion} />:
\* a prop written after the spread replaces the spread's
BombElement(bomb, importedConfig) ==
    [explosionSize |-> importedConfig.size.explosion] @@ bomb

\* bombs.map(...) of GameContent: one element per bomb, keyed by id
GameContent(bombs, importedConfig) ==
    [id \in DOMAIN bombs |-> BombElement(bombs[id], importedConfig)]

InitLifecycle ==
    /\ \E outcome \in generateDefaultGameState(Given(ConfigOf(MaxMapSize - 1, DefaultBlockTileChance))) :
          /\ ~outcome.threw
          /\ state = outcome.state
    /\ config \in ImportedConfigs
    /\ ret = GameContent(state.bombs, config)
    /\ call = NoEvent
    /\ pc = "playing"
    /\ now = 0

\* the clock moves on by a millisecond
Tick ==
    /\ pc = "playing"
    /\ now < MaxClock
    /\ now' = now + 1
    /\ UNCHANGED <<state, call, ret, pc, config>>

\* a key goes down: handleBombForPlayers calls dropBomb for every player
\* that may act and whose DropBomb key it is; the bomb joins the bombs
DropBomb(playerId) ==
    /\ pc = "playing"
    /\ playerId \in DOMAIN state.players
    /\ canPlayerTakeAction(state.players, playerId, state.config.powerUps)
    /\ LET bomb == generateBomb(state.players[playerId], state.config.powerUps, now)
       IN /\ Cardinality(DOMAIN state.bombs \cup {bomb.id}) <= MaxBombs
          /\ state' = [state EXCEPT !.bombs = (bomb.id :> bomb) @@ state.bombs]
    /\ ret' = GameContent(state'.bombs, config)
    /\ UNCHANGED <<call, pc, now, config>>

\* the player takes a power-up from its square; the caller caps the count
\* at maxDropCount
PickUpPowerUp(playerId, type) ==
    /\ pc = "playing"
    /\ playerId \in DOMAIN state.players
    /\ LET powerUps == state.players[playerId].state.powerUps
       IN /\ powerUps[type] < state.config.powerUps.maxDropCount[type]
          /\ powerUps[Life] + powerUps[BombCount] + powerUps[BombSize] + powerUps[MovementSpeed] < MaxPickUps
    /\ state' = [state EXCEPT !.players[playerId].state.powerUps[type] = @ + 1]
    /\ ret' = GameContent(state'.bombs, config)
    /\ UNCHANGED <<call, pc, now, config>>

\* the player is caught by fire: deathCount goes up by one
IncrementDeathCount(playerId) ==
    /\ pc = "playing"
    /\ playerId \in DOMAIN state.players
    /\ state.players[playerId].state.deathCount < MaxDeathCount
    /\ state' = [state EXCEPT !.players[playerId].state.deathCount = @ + 1]
    /\ ret' = GameContent(state'.bombs, config)
    /\ UNCHANGED <<call, pc, now, config>>

NextLifecycle ==
    \/ Tick
    \/ \E playerId \in Player : DropBomb(playerId)
    \/ \E playerId \in Player, type \in PowerUp : PickUpPowerUp(playerId, type)
    \/ \E playerId \in Player : IncrementDeathCount(playerId)

SpecLifecycle == InitLifecycle /\ [][NextLifecycle]_vars

-----------------------------------------------------------------------------
(* Coordinate converter: there and back *)

Pixels == (0 - MaxPixel) .. MaxPixel

InitConverter ==
    /\ state = NoState
    /\ ret = NoValue
    /\ pc = "ready"
    /\ now = 0
    /\ config = NoConfig
    /\ call \in [ fn : {"topLeftCoordinatesToSquareCoordinates"},
                   coordinates : [top : Pixels, left : Pixels],
                   movementSize : 1 .. MaxMovementSize ]

\* a square with a fraction for its column or row: its way back multiplies a
\* fraction, whose rounded product is not followed
Rounded == "rounded"

\* top and left are multiples of the movement size
IsAligned(coordinates, movementSize) ==
    coordinates.top % movementSize = 0 /\ coordinates.left % movementSize = 0

\* the pixel coordinates are converted to a square and the square back
Convert ==
    /\ pc = "ready"
    /\ LET square == topLeftCoordinatesToSquareCoordinates(call.coordinates, call.movementSize)
       IN ret' = [ square |-> square,
                   topLeft |-> IF IsAligned(call.coordinates, call.movementSize)
                               THEN squareCoordinatesToTopLeftCoordinates(square, call.movementSize)
                               ELSE Rounded ]
    /\ pc' = "done"
    /\ UNCHANGED <<state, call, now, config>>

NextConverter == Convert

SpecConverter == InitConverter /\ [][NextConverter]_vars

-----------------------------------------------------------------------------
(* Movement resolution: handleMove and the timeout it sets *)

UP == "UP"
RIGHT == "RIGHT"
DOWN == "DOWN"
LEFT == "LEFT"
Direction == {UP, RIGHT, DOWN, LEFT}

\* both axes moved whatever the direction
NewCoordinates_Diagonal(coordinates, direction, movement) ==
    [top |-> coordinates.top + movement, left |-> coordinates.left + movement]

\* the switch of handleMove: newTop and newLeft
NewCoordinates(coordinates, direction, movement) ==
    [ top |-> CASE direction = UP -> coordinates.top - movement
                [] direction = DOWN -> coordinates.top + movement
                [] OTHER -> coordinates.top,
      left |-> CASE direction = RIGHT -> coordinates.left + movement
                 [] direction = LEFT -> coordinates.left - movement
                 [] OTHER -> coordinates.left ]

\* what a call has done to the page and to the callbacks handed to it
NoEffects == << >>
ResetRotation == [effect |-> "resetRotation"]
HandleRotateMove(direction) == [effect |-> "handleRotateMove", direction |-> direction]
OnComplete(playerId, newCoordinates) == [effect |-> "onComplete", playerId |-> playerId, newCoordinates |-> newCoordinates]

\* the timeouts set and not yet run, oldest first
NoTimeouts == << >>

\* handleMove up to its return: the effects of the call and the timeouts it
\* sets, each holding what the callback closes over
handleMove(props, sizes) ==
    IF props.direction = Undefined
    THEN [effects |-> NoEffects, timeouts |-> NoTimeouts]
    ELSE LET newCoordinates == NewCoordinates(props.playerConfig.coordinates, props.direction, sizes.movement)
         IN IF ~canMove(newCoordinates, props.gameMap, sizes)
            THEN [effects |-> NoEffects, timeouts |-> NoTimeouts]
            ELSE [ effects |-> IF props.is3D THEN <<ResetRotation>> ELSE NoEffects,
                   timeouts |-> << [ playerId |-> props.playerConfig.id,
                                     newCoordinates |-> newCoordinates,
                                     direction |-> props.direction,
                                     is3D |-> props.is3D ] >> ]

\* the callback handleMove gave to setTimeout
RunTimeout(timeout) ==
    (IF timeout.is3D THEN <<HandleRotateMove(timeout.direction)>> ELSE NoEffects)
        \o <<OnComplete(timeout.playerId, timeout.newCoordinates)>>

\* the effects stamped with the task of the event loop they happened in
InTask(effects, task) ==
    [k \in 1 .. Len(effects) |-> [done |-> effects[k], task |-> task]]

\* the squares a player may stand on
Standable(gameMap, mapSize) ==
    { c \in Cells(mapSize) : SquareAt(gameMap, c[2], c[1]) \notin {Breaking, NonBreaking} }

MoveCalls(mapSize, maps) ==
    { [ fn |-> "handleMove",
        playerConfig |-> [id |-> "P1", coordinates |-> [top |-> c[2] * DefaultMovementSize, left |-> c[1] * DefaultMovementSize]],
        direction |-> direction,
        is3D |-> is3D,
        gameMap |-> gameMap,
        sizes |-> [map |-> mapSize, movement |-> DefaultMovementSize] ] :
        gameMap \in maps, c \in Cells(mapSize), direction \in Direction \cup {Undefined}, is3D \in BOOLEAN }

InitMove ==
    /\ state = NoEffects
    /\ ret = NoTimeouts
    /\ pc = "ready"
    /\ now = 0
    /\ config = NoConfig
    /\ call \in { c \in MoveCalls(MaxMapSize, MapsOf(MaxMapSize, {Breaking, NonBreaking, Bomb, FireVertical})) :
                    <<c.playerConfig.coordinates.left \div DefaultMovementSize, c.playerConfig.coordinates.top \div DefaultMovementSize>>
                        \in Standable(c.gameMap, MaxMapSize) }

\* handleMove is called and returns
HandleMove ==
    /\ pc = "ready"
    /\ LET outcome == handleMove(call, call.sizes)
       IN /\ state' = state \o InTask(outcome.effects, now)
          /\ ret' = ret \o outcome.timeouts
    /\ pc' = "returned"
    /\ UNCHANGED <<call, now, config>>

\* a later task of the event loop runs the oldest timeout
Timeout ==
    /\ pc = "returned"
    /\ ret # NoTimeouts
    /\ now' = now + 1
    /\ state' = state \o InTask(RunTimeout(Head(ret)), now')
    /\ ret' = Tail(ret)
    /\ UNCHANGED <<call, pc, config>>

NextMove == HandleMove \/ Timeout

SpecMove == InitMove /\ [][NextMove]_vars

-----------------------------------------------------------------------------
(* Player events: the interval of every slot and the key-down listener *)

generatePlayers(cfg) ==
    LET defaultCoordinates == getDefaultPlayerStartSquareCoordinates(cfg.sizes.map)
    IN [ P1 |-> generatePlayer("P1", cfg, Given(defaultCoordinates.P1)),
         P2 |-> generatePlayer("P2", cfg, Given(defaultCoordinates.P2)),
         P3 |-> generatePlayer("P3", cfg, Given(defaultCoordinates.P3)),
         P4 |-> generatePlayer("P4", cfg, Given(defaultCoordinates.P4)) ]

\* a players object with the given slots only
PlayersOn(slots, cfg) == [playerId \in slots |-> generatePlayers(cfg)[playerId]]

\* the codes the keyboard configs name
KeyCodes ==
    LET keyboardConfig == generateDefaultGameConfig.keyboardConfig
    IN UNION { { keyboardConfig[playerId][action] : action \in DOMAIN keyboardConfig[playerId] } :
                 playerId \in DOMAIN keyboardConfig }

\* keyMap.current, as the set of the codes it holds true for
KeyMaps == SubsetsUpTo(KeyCodes, MaxKeys)

\* getMoveDirectionFromKeyMap with multi = false: the first held key of
\* MoveUp, MoveRight, MoveDown, MoveLeft
getMoveDirectionFromKeyMap(keyMap, keyboardConfig) ==
    IF keyboardConfig.MoveUp \in keyMap THEN <<UP>>
    ELSE IF keyboardConfig.MoveRight \in keyMap THEN <<RIGHT>>
    ELSE IF keyboardConfig.MoveDown \in keyMap THEN <<DOWN>>
    ELSE IF keyboardConfig.MoveLeft \in keyMap THEN <<LEFT>>
    ELSE << >>

\* the callbacks a handler has invoked, in order
NoInvocations == << >>
TriggerMoveCall(playerId, direction, keyMap) == [fn |-> "triggerMove", playerId |-> playerId, direction |-> direction, keyMap |-> keyMap]
DropBombCall(playerId, keyEventCode) == [fn |-> "dropBomb", playerId |-> playerId, keyEventCode |-> keyEventCode]
NpcActionCall(playerId) == [fn |-> "npcAction", playerId |-> playerId]
TypeErrorThrown == [fn |-> "TypeError"]

\* move of useEvents: one triggerMove per direction
move(playerId, playerKeyboardConfig, keyMap) ==
    LET held == getMoveDirectionFromKeyMap(keyMap, playerKeyboardConfig)
    IN [k \in 1 .. Len(held) |-> TriggerMoveCall(playerId, held[k], keyMap)]

\* handleActions; elapsed is newTime - timeOutRef.current[playerId] and
\* hasRef tells whether playerRefs.current[playerId] holds an element
handleActions(players, playerId, keyMap, elapsed, hasRef, powerUpConfig) ==
    IF keyMap = {} THEN NoInvocations
    ELSE IF IsNoKeyboardConfig(players[playerId].keyboardConfig) THEN NoInvocations
    ELSE IF ~hasRef THEN NoInvocations
    ELSE IF elapsed > getPoweredUpValue(players[playerId].state, MovementSpeed, powerUpConfig)
    THEN move(playerId, players[playerId].keyboardConfig, keyMap)
    ELSE NoInvocations

RECURSIVE handleBombFrom(_, _, _, _)
\* the forEach of handleBombForPlayers from the k-th key of the players on
handleBombFrom(players, keyEventCode, powerUpConfig, k) ==
    IF k > Len(PlayerIds) THEN NoInvocations
    ELSE LET playerId == PlayerIds[k]
             rest == handleBombFrom(players, keyEventCode, powerUpConfig, k + 1)
         IN IF playerId \notin DOMAIN players THEN rest
            ELSE IF ~canPlayerTakeAction(players, playerId, powerUpConfig) THEN rest
            ELSE IF IsNoKeyboardConfig(players[playerId].keyboardConfig) THEN <<TypeErrorThrown>>
            ELSE IF keyEventCode = players[playerId].keyboardConfig.DropBomb
            THEN <<DropBombCall(playerId, keyEventCode)>> \o rest
            ELSE rest

handleBombForPlayers(players, keyEventCode, powerUpConfig) ==
    handleBombFrom(players, keyEventCode, powerUpConfig, 1)

InitEvents ==
    /\ \E slots \in SUBSET Player :
          state = [ players |-> PlayersOn(slots, generateDefaultGameConfig),
                    config |-> generateDefaultGameConfig ]
    /\ ret = NoInvocations
    /\ call = NoEvent
    /\ pc = "listening"
    /\ now = 0
    /\ config = NoConfig

\* the interval of P1, P2 or P3 fires: usePlayerInterval, then handleActions
IntervalOfPlayer(playerId, keyMap, late, hasRef) ==
    /\ pc = "listening"
    /\ ret' = IF ~canPlayerTakeAction(state.players, playerId, state.config.powerUps)
              THEN NoInvocations
              ELSE LET movementSpeed == getPoweredUpValue(state.players[playerId].state, MovementSpeed, state.config.powerUps)
                   IN handleActions(state.players, playerId, keyMap,
                                    IF late THEN movementSpeed + 1 ELSE movementSpeed,
                                    hasRef, state.config.powerUps)
    /\ UNCHANGED <<state, call, pc, now, config>>

\* the interval of P4 fires: usePlayerInterval, then npcAction
IntervalOfNpc ==
    /\ pc = "listening"
    /\ ret' = IF ~canPlayerTakeAction(state.players, "P4", state.config.powerUps)
              THEN NoInvocations
              ELSE <<NpcActionCall("P4")>>
    /\ UNCHANGED <<state, call, pc, now, config>>

\* a key goes down: onKeyDown of useKeyboardEvent
KeyDown(keyEventCode) ==
    /\ pc = "listening"
    /\ ret' = handleBombForPlayers(state.players, keyEventCode, state.config.powerUps)
    /\ UNCHANGED <<state, call, pc, now, config>>

RECURSIVE DeathsOf(_, _)
\* the deathCounts of the players from the k-th slot on, added up
DeathsOf(players, k) ==
    IF k > Len(PlayerIds) THEN 0
    ELSE (IF PlayerIds[k] \in DOMAIN players THEN players[PlayerIds[k]].state.deathCount ELSE 0)
           + DeathsOf(players, k + 1)

\* the store raises the deathCount of a player caught by fire
Dies(playerId) ==
    /\ pc = "listening"
    /\ playerId \in DOMAIN state.players
    /\ DeathsOf(state.players, 1) < MaxDeathCount
    /\ state' = [state EXCEPT !.players[playerId].state.deathCount = @ + 1]
    /\ ret' = NoInvocations
    /\ UNCHANGED <<call, pc, now, config>>

NextEvents ==
    \/ \E playerId \in {"P1", "P2", "P3"}, keyMap \in KeyMaps, late \in BOOLEAN, hasRef \in BOOLEAN :
          IntervalOfPlayer(playerId, keyMap, late, hasRef)
    \/ IntervalOfNpc
    \/ \E keyEventCode \in KeyCodes : KeyDown(keyEventCode)
    \/ \E playerId \in Player : Dies(playerId)

SpecEvents == InitEvents /\ [][NextEvents]_vars

-----------------------------------------------------------------------------
(* Moves and bomb drops of two players, each move committed by its timeout *)

\* the store puts the bomb of generateBomb under its id and marks its square
WithBomb(gameState, bomb) ==
    LET square == topLeftCoordinatesToSquareCoordinates([top |-> bomb.top, left |-> bomb.left], gameState.config.sizes.movement)
    IN [gameState EXCEPT !.bombs = (bomb.id :> bomb) @@ gameState.bombs,
                         !.gameMap[square.ySquare][square.xSquare] = Bomb]

\* the store puts the player on the coordinates onComplete hands it
WithMove(gameState, timeout) ==
    [gameState EXCEPT !.players[timeout.playerId].coordinates = timeout.newCoordinates]

InitRace ==
    /\ \E is3D \in BOOLEAN :
       \E generated \in generateRandomGameMap(MaxMapSize - 1, DefaultBlockTileChance, Omitted) :
          /\ ~generated.threw
          /\ state = [ players |-> PlayersOn({"P1", "P2"}, ConfigOf(MaxMapSize - 1, DefaultBlockTileChance)),
                       gameMap |-> generated.gameMap,
                       bombs |-> EmptyObject,
                       config |-> ConfigOf(MaxMapSize - 1, DefaultBlockTileChance),
                       is3D |-> is3D ]
    /\ ret = NoTimeouts
    /\ call = NoEvent
    /\ pc = "racing"
    /\ now = 0
    /\ config = NoConfig

\* the interval of a player triggers a move at a new reading of the clock:
\* handleMove checks the square against the map of this moment and leaves
\* the commit to a timeout
TriggerMove(playerId, direction) ==
    /\ pc = "racing"
    /\ now < MaxClock
    /\ canPlayerTakeAction(state.players, playerId, state.config.powerUps)
    /\ now' = now + 1
    /\ ret' = ret \o handleMove([ playerConfig |-> state.players[playerId],
                                  direction |-> direction,
                                  is3D |-> state.is3D,
                                  gameMap |-> state.gameMap ],
                                state.config.sizes).timeouts
    /\ UNCHANGED <<state, call, pc, config>>

\* the oldest timeout runs: onComplete commits the move
CompleteMove ==
    /\ pc = "racing"
    /\ ret # NoTimeouts
    /\ state' = WithMove(state, Head(ret))
    /\ ret' = Tail(ret)
    /\ UNCHANGED <<call, pc, now, config>>

\* the DropBomb key of a player goes down
PlaceBomb(playerId) ==
    /\ pc = "racing"
    /\ canPlayerTakeAction(state.players, playerId, state.config.powerUps)
    /\ LET bomb == generateBomb(state.players[playerId], state.config.powerUps, now)
       IN /\ Cardinality(DOMAIN state.bombs \cup {bomb.id}) <= MaxBombs
          /\ state' = WithBomb(state, bomb)
    /\ UNCHANGED <<call, ret, pc, now, config>>

NextRace ==
    \/ \E playerId \in Player, direction \in Direction : TriggerMove(playerId, direction)
    \/ CompleteMove
    \/ \E playerId \in Player : PlaceBomb(playerId)

SpecRace == InitRace /\ [][NextRace]_vars

-----------------------------------------------------------------------------
(* Properties of the explosion engine *)

ExplosionDone == pc = "done" /\ call.fn = "getExplosionResults"

\* the square the bomb lies on
BombX == call.bombCoordinates.left \div call.sizes.movement
BombY == call.bombCoordinates.top \div call.sizes.movement

ToSet(seq) == {seq[k] : k \in 1 .. Len(seq)}

RayBuckets ==
    ret.coordinatesToSetOnFire.horizontal \o ret.coordinatesToSetOnFire.vertical
FireBuckets == RayBuckets \o ret.coordinatesToSetOnFire.core

InMap(c) ==
    /\ c.xSquare \in Indexes(call.sizes.map)
    /\ c.ySquare \in Indexes(call.sizes.map)

\* the tile of the given map at a cell, "undefined" outside the map
TileOf(c) ==
    IF InMap(c) THEN call.gameMap[c.ySquare][c.xSquare] ELSE Undefined

\* up, right, down, left
Cardinal == {<<0, -1>>, <<1, 0>>, <<0, 1>>, <<-1, 0>>}

\* the cell d steps from the bomb in direction dir
RayCell(dir, d) ==
    SquareCoordinate(BombX + d * dir[1], BombY + d * dir[2])

\* no ray is longer than this
FarEnd == call.sizes.map + MaxExplosionSize + 1

Obstacles == {Breaking, NonBreaking}

\* the ray in direction dir meets its first obstacle d steps from the bomb
FirstObstacleAt(dir, d) ==
    /\ d <= call.explosionSize
    /\ TileOf(RayCell(dir, d)) \in Obstacles
    /\ \A e \in 1 .. (d - 1) : TileOf(RayCell(dir, e)) \notin Obstacles

Recorded(c) ==
    c \in ToSet(FireBuckets) \/ c \in ToSet(ret.tilesToBreak)

\* C1: in the default mode each ray stops at the first NonBreaking tile,
\* which it does not record, and at the first Breaking tile, which it records
\* as fire and in tilesToBreak; no cell of the ray beyond either is recorded.
C1_RaysStopAtFirstObstacle ==
    (ExplosionDone /\ ~call.checkOnlyFire) =>
        \A dir \in Cardinal : \A d \in 1 .. FarEnd :
            FirstObstacleAt(dir, d) =>
                /\ TileOf(RayCell(dir, d)) = NonBreaking
                        => ~Recorded(RayCell(dir, d))
                /\ TileOf(RayCell(dir, d)) = Breaking
                        => /\ RayCell(dir, d) \in ToSet(FireBuckets)
                           /\ RayCell(dir, d) \in ToSet(ret.tilesToBreak)
                /\ \A e \in (d + 1) .. FarEnd : ~Recorded(RayCell(dir, e))

\* a ray stopped by a Breaking tile that has a square of the map behind it,
\* within the size of the explosion
C1_Witness ==
    /\ ExplosionDone /\ ~call.checkOnlyFire
    /\ \E dir \in Cardinal : \E d \in 1 .. FarEnd :
          /\ FirstObstacleAt(dir, d)
          /\ TileOf(RayCell(dir, d)) = Breaking
          /\ RayCell(dir, d) \in ToSet(ret.tilesToBreak)
          /\ InMap(RayCell(dir, d + 1)) /\ d + 1 <= call.explosionSize

AllEmpty ==
    \A y \in Indexes(call.sizes.map) : \A x \in Indexes(call.sizes.map) :
        call.gameMap[y][x] = Empty

\* the squares of the map at distance 1 .. explosionSize from the bomb along
\* the four cardinal directions
CrossOfBomb ==
    { c \in { RayCell(dir, d) : dir \in Cardinal,
                                 d \in 1 .. call.explosionSize } : InMap(c) }

CoreOfBomb == SquareCoordinate(BombX, BombY)

\* C5: on an all-Empty map the fire set is the core square and the squares
\* of the map within explosionSize of the bomb along the four directions,
\* each once, and nothing is to break; a size <= 0 gives the core alone and
\* size 2 at (7,7) of a 15 x 15 map gives 9 squares.
C5_FireOnEmptyMap ==
    (ExplosionDone /\ ~call.checkOnlyFire /\ AllEmpty) =>
        /\ ToSet(FireBuckets) = CrossOfBomb \cup {CoreOfBomb}
        /\ Len(FireBuckets) = Cardinality(CrossOfBomb) + 1
        /\ ret.coordinatesToSetOnFire.core = <<CoreOfBomb>>
        /\ ret.tilesToBreak = << >>
        /\ call.explosionSize <= 0 => FireBuckets = <<CoreOfBomb>>
        /\ ( /\ call.sizes.map = 15 /\ call.explosionSize = 2
             /\ CoreOfBomb = SquareCoordinate(7, 7) )
                => Len(FireBuckets) = 9

\* the scenario of the 15 x 15 map
C5_Witness ==
    /\ ExplosionDone /\ ~call.checkOnlyFire /\ AllEmpty
    /\ call.sizes.map = DefaultMapSize /\ call.explosionSize = 2
    /\ CoreOfBomb = SquareCoordinate(7, 7)
    /\ Len(FireBuckets) = 9

\* C6: with checkOnlyFire every square of the horizontal and vertical
\* buckets holds FireHorizontal or FireVertical in the given map.
C6_FireOnlyRecordsFire ==
    (ExplosionDone /\ call.checkOnlyFire) =>
        \A c \in ToSet(RayBuckets) : TileOf(c) \in {FireHorizontal, FireVertical}

\* a ray that recorded a burning square after a square that does not burn
C6_Witness ==
    /\ ExplosionDone /\ call.checkOnlyFire
    /\ \E dir \in Cardinal : \E d \in 2 .. call.explosionSize :
          /\ RayCell(dir, d) \in ToSet(RayBuckets)
          /\ TileOf(RayCell(dir, d - 1)) = Empty

\* C7: for a bomb on the map the engine indexes gameMap only at rows and
\* columns in [0, mapSize), and every coordinate it returns lies in the map.
C7_EngineStaysInsideMap ==
    (ExplosionDone /\ InMap(CoreOfBomb)) =>
        /\ \A k \in 1 .. Len(ret.reads) :
              /\ ret.reads[k][1] \in Indexes(call.sizes.map)
              /\ ret.reads[k][2] \in Indexes(call.sizes.map)
        /\ \A c \in ToSet(FireBuckets) : InMap(c)
        /\ \A c \in ToSet(ret.tilesToBreak) : InMap(c)

\* an explosion larger than the map: every ray leaves the map
C7_Witness ==
    /\ ExplosionDone /\ InMap(CoreOfBomb)
    /\ call.explosionSize >= call.sizes.map
    /\ call.sizes.map > 1
    /\ \A dir \in Cardinal : ~InMap(RayCell(dir, call.explosionSize))
    /\ ret.tilesToBreak # << >>


-----------------------------------------------------------------------------
(* Properties of the map generator *)

MapDone == pc = "done" /\ call.fn = "generateRandomGameMap"

\* C2: for a list of forbidden squares of the map, the empty list included,
\* generateRandomGameMap returns a map that holds Empty at every forbidden
\* square, whatever was drawn.
C2_ForbiddenSquaresAreEmpty ==
    (MapDone /\ call.forbiddenCoordinates # Omitted) =>
        /\ ~ret.threw
        /\ \A k \in 1 .. Len(call.forbiddenCoordinates[1]) :
              LET c == call.forbiddenCoordinates[1][k]
              IN ret.gameMap[c.ySquare][c.xSquare] = Empty

\* a forbidden square on which a block had been drawn
C2_Witness ==
    /\ MapDone /\ call.forbiddenCoordinates # Omitted
    /\ \E k \in 1 .. Len(call.forbiddenCoordinates[1]) :
          LET c == call.forbiddenCoordinates[1][k]
          IN /\ ret.randomMap[c.ySquare][c.xSquare] \in {Breaking, NonBreaking}
             /\ ret.gameMap[c.ySquare][c.xSquare] = Empty

\* the spawn corners of a map of side n, P1 .. P4, as <<xSquare, ySquare>>
Corners(n) == << <<0, 0>>, <<n - 1, 0>>, <<n - 1, n - 1>>, <<0, n - 1>> >>

\* the horizontal and the vertical neighbour of the k-th corner on the map
CornerNeighbours(n, k) ==
    LET x == Corners(n)[k][1]
        y == Corners(n)[k][2]
    IN << SquareCoordinate(IF x = 0 THEN 1 ELSE x - 1, y),
          SquareCoordinate(x, IF y = 0 THEN 1 ELSE y - 1) >>

ForbiddenDone == pc = "done" /\ call.fn = "getForbiddenStartCoordinates"

\* C3: for mapSize >= 2 the default forbidden list is, for P1 .. P4 in turn,
\* the spawn corner, its horizontal and its vertical neighbour, all on the
\* map; and on a map generated with forbiddenCoordinates omitted canMove
\* accepts both neighbours of every corner.
C3_DefaultForbiddenFreesSpawn ==
    /\ (ForbiddenDone /\ call.mapSize >= 2) =>
          LET n == call.mapSize
          IN /\ Len(ret) = 12
             /\ \A k \in 1 .. 4 :
                  /\ ret[3 * k - 2] =
                         SquareCoordinate(Corners(n)[k][1], Corners(n)[k][2])
                  /\ ret[3 * k - 1] = CornerNeighbours(n, k)[1]
                  /\ ret[3 * k] = CornerNeighbours(n, k)[2]
             /\ \A k \in 1 .. 12 :
                  /\ ret[k].xSquare \in 0 .. (n - 1)
                  /\ ret[k].ySquare \in 0 .. (n - 1)
    /\ (MapDone /\ call.forbiddenCoordinates = Omitted /\ call.mapSize >= 2) =>
          LET n == call.mapSize
          IN /\ ~ret.threw
             /\ \A k \in 1 .. 4 : \A h \in 1 .. 2 :
                  /\ canMove(CornerNeighbours(n, k)[h], ret.gameMap, Sizes(n))
                  /\ canMove(squareCoordinatesToTopLeftCoordinates(
                                 CornerNeighbours(n, k)[h], DefaultMovementSize),
                             ret.gameMap, Sizes(n))

\* a map with default forbidden squares on which a block had been drawn next
\* to a spawn corner
C3_Witness ==
    /\ MapDone /\ call.forbiddenCoordinates = Omitted /\ call.mapSize >= 2
    /\ \E k \in 1 .. 4 : \E h \in 1 .. 2 :
          LET c == CornerNeighbours(call.mapSize, k)[h]
          IN /\ ret.randomMap[c.ySquare][c.xSquare] \in {Breaking, NonBreaking}
             /\ ret.gameMap[c.ySquare][c.xSquare] = Empty

-----------------------------------------------------------------------------
(* Properties of the movement validator *)

CanMoveDone == pc = "done" /\ call.fn = "canMove"

\* the grid column and row of the target
TargetColumn ==
    IF "xSquare" \in DOMAIN call.coordinates
    THEN call.coordinates.xSquare
    ELSE call.coordinates.left \div call.sizes.movement
TargetRow ==
    IF "ySquare" \in DOMAIN call.coordinates
    THEN call.coordinates.ySquare
    ELSE call.coordinates.top \div call.sizes.movement

TargetOnMap ==
    /\ TargetColumn \in 0 .. (call.sizes.map - 1)
    /\ TargetRow \in 0 .. (call.sizes.map - 1)

\* C4: canMove is true exactly when the column and the row of the target lie
\* in [0, mapSize - 1] and the tile there is none of Breaking, NonBreaking,
\* Bomb; so it is false off the map and true on a burning square.
C4_CanMoveIffFreeSquareOfMap ==
    CanMoveDone =>
        /\ ret <=> ( /\ TargetOnMap
                     /\ call.gameMap[TargetRow][TargetColumn]
                            \notin {Breaking, NonBreaking, Bomb} )
        /\ ~TargetOnMap => ~ret
        /\ ( /\ TargetOnMap
             /\ call.gameMap[TargetRow][TargetColumn]
                    \in {FireHorizontal, FireVertical} ) => ret

\* a move onto a burning square, given in pixels, that canMove accepts
C4_Witness ==
    /\ CanMoveDone
    /\ TargetOnMap
    /\ call.gameMap[TargetRow][TargetColumn] \in {FireHorizontal, FireVertical}
    /\ "top" \in DOMAIN call.coordinates
    /\ ret

-----------------------------------------------------------------------------
(* Properties of the game state assembler *)

AssembleDone ==
    /\ pc = "done" /\ call.fn = "generateDefaultGameState"
    /\ call.config # Omitted

\* the side of a generated map
DimensionOf(gameMap) == Cardinality(DOMAIN gameMap)

\* every player of the state stands on a corner of the map of the passed
\* config, with no death and no power-up
PlayersAtCorners(players, cfg) ==
    \A playerId \in DOMAIN players :
        /\ \E k \in 1 .. 4 :
              players[playerId].coordinates =
                  [ top |-> Corners(cfg.sizes.map)[k][2] * cfg.sizes.movement,
                    left |-> Corners(cfg.sizes.map)[k][1] * cfg.sizes.movement ]
        /\ players[playerId].state.deathCount = 0
        /\ \A powerUp \in PowerUp :
              players[playerId].state.powerUps[powerUp] = 0

\* what generateDefaultGameState(config) returns besides the stamped config
RestOfStateAssembled ==
    AssembleDone =>
        /\ DimensionOf(ret.gameMap) = call.config[1].sizes.map
        /\ PlayersAtCorners(ret.players, call.config[1])
        /\ ret.bombs = EmptyObject
        /\ ret.powerUps = EmptyObject
        /\ ret.animationCounter = 0

\* C10: generateDefaultGameState(config) stamps the config it was given into
\* the state it returns, so that the dimension of the generated map is
\* config.sizes.map of the returned state; players stand on grid corners with
\* deathCount 0 and no power-up, bombs and powerUps are empty and the
\* animation counter is 0.
C10_StateIsFunctionOfConfig ==
    AssembleDone =>
        /\ ret.config = call.config[1]
        /\ DimensionOf(ret.gameMap) = ret.config.sizes.map
        /\ PlayersAtCorners(ret.players, call.config[1])
        /\ ret.bombs = EmptyObject
        /\ ret.powerUps = EmptyObject
        /\ ret.animationCounter = 0

-----------------------------------------------------------------------------
(* Properties of the player lifecycle *)

Playing == pc = "playing"

PlayersOf(gameState) == DOMAIN gameState.players

PlayerStateOf(gameState, playerId) == gameState.players[playerId].state

IsDead(gameState, playerId) ==
    isPlayerDead(PlayerStateOf(gameState, playerId), gameState.config.powerUps)

\* default Life + Life pickups x Life increase
LifeOf(gameState, playerId) ==
    gameState.config.powerUps.defaults.Life
        + PlayerStateOf(gameState, playerId).powerUps[Life]
            * gameState.config.powerUps.increaseValues.Life

\* isPlayerDead is false at deathCount 0 and true exactly from the Life value on
DeadExactlyFromLifeOn ==
    Playing =>
        \A playerId \in PlayersOf(state) :
            /\ PlayerStateOf(state, playerId).deathCount = 0
                  => ~IsDead(state, playerId)
            /\ IsDead(state, playerId)
                  <=> PlayerStateOf(state, playerId).deathCount
                          >= LifeOf(state, playerId)

\* deathCount is not reset in the step
DeathCountKept(playerId) ==
    PlayerStateOf(state', playerId).deathCount
        >= PlayerStateOf(state, playerId).deathCount

\* the step is no pickup of a Life power-up
LifeCountKept(playerId) ==
    PlayerStateOf(state', playerId).powerUps[Life]
        = PlayerStateOf(state, playerId).powerUps[Life]

-----------------------------------------------------------------------------
(* Properties of bomb placement *)

\* the bombs placed by the step
PlacedNow == DOMAIN state'.bombs \ DOMAIN state.bombs

\* the bomb holds the owner's coordinates, identity and effective BombSize
PlacedAsOwner(bomb, gameState) ==
    /\ bomb.playerId \in PlayersOf(gameState)
    /\ bomb.explosionSize =
          gameState.config.powerUps.defaults.BombSize
              + PlayerStateOf(gameState, bomb.playerId).powerUps[BombSize]
                  * gameState.config.powerUps.increaseValues.BombSize
    /\ bomb.top = gameState.players[bomb.playerId].coordinates.top
    /\ bomb.left = gameState.players[bomb.playerId].coordinates.left

\* generateBomb fixes size, coordinates and owner at placement
PlacementCaptures ==
    \A id \in PlacedNow : PlacedAsOwner(state'.bombs[id], state)

\* a change of the players leaves the bombs already placed as they were
PickUpsKeepBombs ==
    state'.players # state.players =>
        \A id \in DOMAIN state.bombs :
            /\ id \in DOMAIN state'.bombs
            /\ state'.bombs[id] = state.bombs[id]

\* the Bomb element of every bomb is given the size the bomb holds
ElementsUseCapturedSize ==
    \A id \in DOMAIN state'.bombs :
        /\ id \in DOMAIN ret'
        /\ ret'[id].explosionSize = state'.bombs[id].explosionSize

\* the part of C9 that generateBomb and the store carry
BombsKeepCapturedSize ==
    [][Playing => PlacementCaptures /\ PickUpsKeepBombs]_vars

\* C9: generateBomb fixes the explosion size of a bomb at placement as default
\* BombSize + the owner's BombSize pickups x BombSize increase, with the
\* coordinates and owner of the placing player; a later change of the owner's
\* power-up counts leaves the size of the bombs already placed unchanged, and
\* the captured size is the one the bomb explodes with.
C9_BombExplodesWithCapturedSize ==
    [][Playing =>
            /\ PlacementCaptures
            /\ PickUpsKeepBombs
            /\ ElementsUseCapturedSize]_vars

-----------------------------------------------------------------------------
(* Properties of the coordinate converter *)

ConvertDone == pc = "done" /\ call.fn = "topLeftCoordinatesToSquareCoordinates"

UnitAligned == IsAligned(call.coordinates, call.movementSize)

\* C15: for every movement size u > 0 and every pixel coordinate p whose top
\* and left are multiples of u, converting p to a square and the square back
\* gives p, and the square in between has an integer column and row.
C15_RoundTripOfAlignedPixels ==
    (ConvertDone /\ UnitAligned) =>
        /\ ret.square.xSquare \in Int
        /\ ret.square.ySquare \in Int
        /\ ret.topLeft = call.coordinates

\* an aligned pixel off both axes, top and left apart, unit above 1
C15_Witness ==
    /\ ConvertDone
    /\ UnitAligned
    /\ call.movementSize > 1
    /\ call.coordinates.top < 0
    /\ call.coordinates.left > call.movementSize
    /\ ret.topLeft = call.coordinates

-----------------------------------------------------------------------------
(* Properties of the fire-only walk *)

\* C16: in fireOnly mode a ray ends at the first cell of the map that holds
\* no fire: once a ray has met such a cell (a Breaking or NonBreaking obstacle
\* in particular), no cell farther along that ray is recorded, even one that
\* holds fire.
C16_FireOnlyRayEndsAtFirstNonFire ==
    (ExplosionDone /\ call.checkOnlyFire) =>
        \A dir \in Cardinal : \A d \in 1 .. FarEnd :
            (InMap(RayCell(dir, d)) /\ TileOf(RayCell(dir, d)) \notin FIRE_VALUES)
                => \A e \in (d + 1) .. FarEnd :
                       RayCell(dir, e) \notin ToSet(RayBuckets)

-----------------------------------------------------------------------------
(* Properties of the explosion result *)

\* no value of the sequence stands at two places
NoRepeat(seq) ==
    \A k \in 1 .. Len(seq) : \A l \in 1 .. Len(seq) :
        seq[k] = seq[l] => k = l

\* every tile to break is a cell set on fire that holds Breaking in the map
BrokenAreBurningBreaking ==
    \A k \in 1 .. Len(ret.tilesToBreak) :
        /\ ret.tilesToBreak[k] \in ToSet(FireBuckets)
        /\ TileOf(ret.tilesToBreak[k]) = Breaking

ResultHasNoRepeat ==
    /\ NoRepeat(FireBuckets)
    /\ NoRepeat(ret.tilesToBreak)
    /\ BrokenAreBurningBreaking

\* the result of a walk that is not fire-only has no repeated coordinate
NoRepeatWithoutFireOnly ==
    (ExplosionDone /\ InMap(CoreOfBomb) /\ ~call.checkOnlyFire) => ResultHasNoRepeat

\* C17: in both values of fireOnly the result of getExplosionResults holds
\* each cell at most once across the horizontal, vertical and core buckets
\* together and at most once in tilesToBreak, and every cell of tilesToBreak
\* is a fire cell whose tile is Breaking in the given map.
C17_ResultHasNoRepeatedCoordinate ==
    (ExplosionDone /\ InMap(CoreOfBomb)) => ResultHasNoRepeat

-----------------------------------------------------------------------------
(* Properties of the movement resolution *)

MoveCalled == call.fn = "handleMove" /\ pc = "returned"

\* the square the direction points at, from the player's square
AimedColumn ==
    call.playerConfig.coordinates.left \div call.sizes.movement
        + (IF call.direction = RIGHT THEN 1 ELSE IF call.direction = LEFT THEN 0 - 1 ELSE 0)

AimedRow ==
    call.playerConfig.coordinates.top \div call.sizes.movement
        + (IF call.direction = DOWN THEN 1 ELSE IF call.direction = UP THEN 0 - 1 ELSE 0)

\* canMove accepts the square aimed at: it lies in the map and holds no
\* Breaking or NonBreaking tile and no bomb
Accepted ==
    /\ call.direction \in Direction
    /\ AimedColumn \in Indexes(call.sizes.map)
    /\ AimedRow \in Indexes(call.sizes.map)
    /\ call.gameMap[AimedRow][AimedColumn] \notin {Breaking, NonBreaking, Bomb}

\* the places of the log where the effect stands
PlacesOf(effect) == { k \in 1 .. Len(state) : state[k].done.effect = effect }

\* one movement unit along the axis of the direction, the other axis kept
OneUnitAlong(direction, from, to, movement) ==
    CASE direction = UP -> to.top = from.top - movement /\ to.left = from.left
      [] direction = DOWN -> to.top = from.top + movement /\ to.left = from.left
      [] direction = RIGHT -> to.left = from.left + movement /\ to.top = from.top
      [] direction = LEFT -> to.left = from.left - movement /\ to.top = from.top

\* C11: handleMove with no direction, or with a direction whose square canMove
\* rejects, does nothing: no onComplete, no rotation reset, now or later; when
\* canMove accepts, onComplete is called exactly once, in a later task than the
\* rotation reset, with the player's coordinate moved by one movement unit
\* along the axis of the direction and kept on the other axis.
C11_HandleMoveCommitsOnceOrNotAtAll ==
    call.fn = "handleMove" =>
        /\ ~Accepted => (state = NoEffects /\ ret = NoTimeouts)
        /\ (Accepted /\ MoveCalled) =>
              /\ Cardinality(PlacesOf("onComplete")) + Len(ret) = 1
              /\ \A k \in PlacesOf("onComplete") :
                    /\ state[k].done.playerId = call.playerConfig.id
                    /\ OneUnitAlong(call.direction, call.playerConfig.coordinates,
                                    state[k].done.newCoordinates, call.sizes.movement)
                    /\ \A l \in PlacesOf("resetRotation") : state[l].task < state[k].task
              /\ call.is3D => PlacesOf("resetRotation") # {}
              /\ ~call.is3D => PlacesOf("resetRotation") = {}

\* a move in 3D has been committed by the timeout, after the rotation reset
C11_Witness ==
    /\ MoveCalled /\ Accepted /\ call.is3D
    /\ ret = NoTimeouts
    /\ PlacesOf("resetRotation") # {}
    /\ PlacesOf("onComplete") # {}
    /\ call.direction = UP

-----------------------------------------------------------------------------
(* Properties of bomb identities *)

\* the step puts a bomb generateBomb made into the store
BombPlaced == state'.bombs # state.bombs

\* C14: bomb identities are unique: a bomb made by generateBomb, however close
\* in time to an earlier drop (within the same clock reading included), has an
\* id that no bomb made before it has.
C14_BombIdsAreUnique ==
    [][(Playing /\ BombPlaced) => PlacedNow # {}]_vars

\* bombs made at different clock readings have different ids
IdsDifferAcrossReadings ==
    [][(Playing /\ BombPlaced /\ (\A id \in DOMAIN state.bombs : state.bombs[id].id # TimeString(now)))
            => PlacedNow = {TimeString(now)}]_vars

-----------------------------------------------------------------------------
(* Properties of the player events *)

Listening == pc = "listening"

\* the slot has no player, or its player is dead
DeadOrAbsent(playerId) ==
    \/ playerId \notin DOMAIN state.players
    \/ state.players[playerId].state.deathCount
          >= state.config.powerUps.defaults.Life
               + state.players[playerId].state.powerUps[Life]
                   * state.config.powerUps.increaseValues.Life

\* the callbacks the last handler invoked for the slot
InvokedFor(playerId) ==
    { k \in 1 .. Len(ret) : ret[k].fn # "TypeError" /\ ret[k].playerId = playerId }

\* C12: a dead or absent player takes no action: the interval of its slot
\* invokes neither its move nor its NPC callback and a key going down invokes
\* no dropBomb for it, in every order of intervals, keys and deaths; and an
\* interval with no key held triggers no move.
C12_DeadOrAbsentPlayerTakesNoAction ==
    Listening =>
        /\ \A playerId \in Player : DeadOrAbsent(playerId) => InvokedFor(playerId) = {}
        /\ \A k \in 1 .. Len(ret) : ret[k].fn = "triggerMove" => ret[k].keyMap # {}

\* a key went down and dropBomb was invoked for the live P2 while P1 is dead
\* and the slot of P3 is empty
C12_Witness ==
    /\ Listening
    /\ \E k \in 1 .. Len(ret) : ret[k].fn = "dropBomb" /\ ret[k].playerId = "P2"
    /\ "P1" \in DOMAIN state.players /\ DeadOrAbsent("P1")
    /\ "P3" \notin DOMAIN state.players

-----------------------------------------------------------------------------
(* Properties of the move commit *)

Racing == pc = "racing"

\* the square of the coordinates lies in the map and holds no Breaking or
\* NonBreaking tile and no bomb
LegalOn(coordinates, gameState) ==
    LET column == coordinates.left \div gameState.config.sizes.movement
        row == coordinates.top \div gameState.config.sizes.movement
    IN /\ column \in Indexes(gameState.config.sizes.map)
       /\ row \in Indexes(gameState.config.sizes.map)
       /\ gameState.gameMap[row][column] \notin {Breaking, NonBreaking, Bomb}

\* the players the step has moved
MovedNow ==
    { playerId \in DOMAIN state.players :
        state'.players[playerId].coordinates # state.players[playerId].coordinates }

\* C13: a move tick reads one snapshot and commits with no other change in
\* between: the coordinate committed by onComplete of handleMove is legal
\* (canMove true) on the game map as it is when the commit is made, in every
\* order of the players' ticks and bomb drops.
C13_CommittedMoveIsLegalAtCommit ==
    [][Racing => \A playerId \in MovedNow :
                    LegalOn(state'.players[playerId].coordinates, state')]_vars

\* the square was legal on the map handleMove read when the timeout was set
TimeoutsWereLegalWhenSet ==
    [][Racing => \A k \in (Len(ret) + 1) .. Len(ret') :
                    LegalOn(ret'[k].newCoordinates, state)]_vars

=============================================================================
